---- MODULE Spec2Model ----
(***************************************************************************)
(* Model of gravsdk.sdkv1 (src/gravsdk/__init__.py): the session client    *)
(* over the Gravitas HTTP JSON API.  Python dicts are functions whose      *)
(* DOMAIN is the set of keys present; Python strings that are built or     *)
(* taken apart by the code are sequences of one-character strings or of    *)
(* string tokens; an outcome is either a returned value or a raised        *)
(* exception.  The backquote of the messages is written ' here.            *)
(***************************************************************************)
EXTENDS Integers, Sequences, FiniteSets, TLC

VARIABLES sdk, transports, call

vars == <<sdk, transports, call>>

\* ------------------------------------------------------------------ bounds
\* longest 'rows' sequence a response carries
MaxRows == 2
\* largest client_id passed to clients()
MaxClientId == 10

\* --------------------------------------------------------- verb constants
READ == 1
CREATE == 2
UPDATE == 3
DELETE == 4

\* default of the 'limit' parameter of clients()
DefaultLimit == 100

\* ------------------------------------------------------------ Python glue
EmptyDict == [k \in {} |-> TRUE]

HasKey(d, k) == k \in DOMAIN d

RECURSIVE SeqsUpTo(_, _)
SeqsUpTo(S, n) ==
  IF n = 0 THEN {<<>>}
  ELSE LET shorter == SeqsUpTo(S, n - 1)
       IN shorter \cup {Append(s, x) : s \in {t \in shorter : Len(t) = n - 1}, x \in S}

DigitChar == <<"0", "1", "2", "3", "4", "5", "6", "7", "8", "9">>

\* str(n) of a non-negative int, as the sequence of its decimal digits
RECURSIVE Str(_)
Str(n) ==
  IF n < 10 THEN <<DigitChar[n + 1]>>
  ELSE Append(Str(n \div 10), DigitChar[(n % 10) + 1])

\* sep.join(items), items being string tokens
RECURSIVE Join(_, _)
Join(sep, items) ==
  IF Len(items) = 0 THEN <<>>
  ELSE IF Len(items) = 1 THEN <<items[1]>>
  ELSE <<items[1], sep>> \o Join(sep, Tail(items))

\* s.find(c): the first index (1-based) of c in s, 0 when absent
Find(s, c) ==
  IF \E i \in 1..Len(s) : s[i] = c
  THEN CHOOSE i \in 1..Len(s) : s[i] = c /\ \A j \in 1..(i - 1) : s[j] # c
  ELSE 0

\* s[a:b] with 1-based inclusive a and b
Slice(s, a, b) == IF a > b THEN <<>> ELSE SubSeq(s, a, b)

\* ------------------------------------------------------------- exceptions
Return(v) == [kind |-> "return", value |-> v]

Raise(cls, msg) == [kind |-> "raise", exc |-> cls, message |-> msg]

GravError(responsetext) ==
  Raise("GravError", <<"API error: '">> \o responsetext \o <<"'">>)

GravAuthError(responsetext) ==
  Raise("GravAuthError", <<"Login error: '">> \o responsetext \o <<"'">>)

GravGeneralError(responsetext) ==
  Raise("GravGeneralError", <<"General error: '">> \o responsetext \o <<"'">>)

\* d[k] on a dict without the key k
KeyError(k) == Raise("KeyError", <<k>>)

\* s[0] on an empty list
IndexError == Raise("IndexError", <<"list index out of range">>)

\* --------------------------------------------------- urlparse and geturl
UpperLetters == {"H", "T", "P", "S"}
LowerLetters == {"h", "t", "p", "s", "f", "w"}
Digits == {"0", "1", "2", "3", "4", "5", "6", "7", "8", "9"}
scheme_chars == UpperLetters \cup LowerLetters \cup Digits \cup {"+", "-", "."}

LowerOf == [c \in UpperLetters |->
              CASE c = "H" -> "h" [] c = "T" -> "t" [] c = "P" -> "p" [] c = "S" -> "s"]

\* str.lower()
Lower(s) == [i \in 1..Len(s) |-> IF s[i] \in UpperLetters THEN LowerOf[s[i]] ELSE s[i]]

uses_netloc == { <<>>, <<"f","t","p">>, <<"h","t","t","p">>, <<"h","t","t","p","s">>,
                 <<"w","s","s">> }

\* the scheme split of urlsplit: [scheme, url] with url the rest
SplitScheme(url) ==
  LET i == Find(url, ":")
  IN IF /\ i > 1
        /\ url[1] \in UpperLetters \cup LowerLetters
        /\ \A j \in 1..(i - 1) : url[j] \in scheme_chars
     THEN [scheme |-> Lower(Slice(url, 1, i - 1)), url |-> Slice(url, i + 1, Len(url))]
     ELSE [scheme |-> <<>>, url |-> url]

\* _splitnetloc(url, 2): the netloc runs to the first of / ? #
SplitNetloc(url) ==
  LET stops == {i \in 3..Len(url) : url[i] \in {"/", "?", "#"}}
      delim == IF stops = {} THEN Len(url) + 1
               ELSE CHOOSE i \in stops : \A j \in stops : i <= j
  IN [netloc |-> Slice(url, 3, delim - 1), url |-> Slice(url, delim, Len(url))]

Contains(s, c) == \E i \in 1..Len(s) : s[i] = c

\* url.split(c, 1) when c is in url
SplitAt(url, c) ==
  LET i == Find(url, c)
  IN [head |-> Slice(url, 1, i - 1), tail |-> Slice(url, i + 1, Len(url))]

\* urlparse(hoststring): the parsed parts, or the ValueError it raises
urlparse(hoststring) ==
  LET s == SplitScheme(hoststring)
      hasNetloc == Len(s.url) >= 2 /\ s.url[1] = "/" /\ s.url[2] = "/"
      n == IF hasNetloc THEN SplitNetloc(s.url) ELSE [netloc |-> <<>>, url |-> s.url]
      badBrackets == Contains(n.netloc, "[") # Contains(n.netloc, "]")
      f == IF Contains(n.url, "#") THEN SplitAt(n.url, "#")
           ELSE [head |-> n.url, tail |-> <<>>]
      q == IF Contains(f.head, "?") THEN SplitAt(f.head, "?")
           ELSE [head |-> f.head, tail |-> <<>>]
  IN IF hasNetloc /\ badBrackets
     THEN [error |-> TRUE, text |-> <<"Invalid IPv6 URL">>]
     ELSE [error |-> FALSE, scheme |-> s.scheme, netloc |-> n.netloc,
           path |-> q.head, query |-> q.tail, fragment |-> f.tail]

\* ParseResult.geturl(): urlunparse of the parts
geturl(parts) ==
  LET doubleSlash == Len(parts.path) >= 2 /\ parts.path[1] = "/" /\ parts.path[2] = "/"
      withNetloc ==
        IF \/ parts.netloc # <<>>
           \/ (parts.scheme # <<>> /\ parts.scheme \in uses_netloc /\ ~doubleSlash)
        THEN <<"/", "/">> \o parts.netloc
             \o (IF parts.path # <<>> /\ parts.path[1] # "/" THEN <<"/">> ELSE <<>>)
             \o parts.path
        ELSE parts.path
      withScheme == IF parts.scheme # <<>> THEN parts.scheme \o <<":">> \o withNetloc
                    ELSE withNetloc
      withQuery == IF parts.query # <<>> THEN withScheme \o <<"?">> \o parts.query
                   ELSE withScheme
  IN IF parts.fragment # <<>> THEN withQuery \o <<"#">> \o parts.fragment ELSE withQuery

\* the host strings a caller constructs the client with
HostStrings ==
  { <<"h","t","t","p","s",":","/","/","h">>,
    <<"H","T","T","P","S",":","/","/","h">>,
    <<"h","t","t","p","s",":","/","/","h","?">>,
    <<"h","t","t","p","s",":","h">>,
    <<"h","t","t","p","s",":","/","/","[","h">>,
    <<"h","t","t","p",":","/","/","h">>,
    <<"f","t","p",":","/","/","h">>,
    <<"w","s","s",":","/","/","h">>,
    <<"h",":","4">>,
    <<"h">>,
    <<"/","/","h">> }

https == <<"h","t","t","p","s">>

\* ------------------------------------------------------------- Transport
\* gravcrud.HTTPCRUD(url, ssl_verify_enable): a Transport object
HTTPCRUD(url, ssl_verify_enable) == [url |-> url, ssl_verify_enable |-> ssl_verify_enable]

NoObject == [constructed |-> FALSE]
NoCall == [op |-> "none"]

\* ----------------------------------------------------------- constructor
\* sdkv1.__init__ with the wss branch of the source switched on
sdkv1_init_wss(hoststring, ssl_verify_enable) ==
  LET hostparts == urlparse(hoststring)
  IN IF hostparts.error
     THEN [object |-> NoObject, created |-> <<>>,
           outcome |-> GravError(<<"invalid url specified: '">> \o hostparts.text \o <<"'">>)]
     ELSE IF hostparts.scheme \in {https, <<"w","s","s">>}
     THEN LET CRUD == HTTPCRUD(geturl(hostparts), ssl_verify_enable)
          IN [object |-> [constructed |-> TRUE, hostparts |-> hostparts,
                          ssl_verify_enable |-> ssl_verify_enable,
                          protocol |-> hostparts.scheme, CRUD |-> CRUD],
              created |-> <<CRUD>>,
              outcome |-> Return("sdkv1")]
     ELSE [object |-> NoObject, created |-> <<>>,
           outcome |-> GravError(<<"invalid protocol specified, must be 'https' or 'wss'">>)]

\* sdkv1.__init__: [object, transports created, outcome]
sdkv1_init(hoststring, ssl_verify_enable) ==
  LET hostparts == urlparse(hoststring)
  IN IF hostparts.error
     THEN [object |-> NoObject, created |-> <<>>,
           outcome |-> GravError(<<"invalid url specified: '">> \o hostparts.text \o <<"'">>)]
     ELSE IF hostparts.scheme = https
     THEN LET CRUD == HTTPCRUD(geturl(hostparts), ssl_verify_enable)
          IN [object |-> [constructed |-> TRUE, hostparts |-> hostparts,
                          ssl_verify_enable |-> ssl_verify_enable,
                          protocol |-> hostparts.scheme, CRUD |-> CRUD],
              created |-> <<CRUD>>,
              outcome |-> Return("sdkv1")]
     ELSE [object |-> NoObject, created |-> <<>>,
           outcome |-> GravError(<<"invalid protocol specified, must be 'https' or 'wss'">>)]

Init ==
  /\ sdk = NoObject
  /\ transports = <<>>
  /\ call = NoCall

Construct ==
  /\ ~sdk.constructed
  /\ call.op = "none"
  /\ \E hoststring \in HostStrings, ssl_verify_enable \in BOOLEAN :
       LET r == sdkv1_init(hoststring, ssl_verify_enable)
       IN /\ sdk' = r.object
          /\ transports' = transports \o r.created
          /\ call' = [op |-> "__init__",
                      args |-> [hoststring |-> hoststring,
                                ssl_verify_enable |-> ssl_verify_enable],
                      requests |-> <<>>,
                      responses |-> <<>>,
                      outcome |-> r.outcome]

\* ------------------------------------------------- transport responses
\* a request the client hands to the Transport: verb, path and params/payload
Request(verb, path, data) == [verb |-> verb, path |-> path, data |-> data]

Errors == {"denied"}

\* user records: each of the two password flags absent, false or true
UserRecords ==
  { f @@ e : f \in {EmptyDict} \cup {[FORCE_PWD_CHANGE |-> b] : b \in BOOLEAN},
             e \in {EmptyDict} \cup {[expired_pwd |-> b] : b \in BOOLEAN} }

ClientRecords == { [NAME |-> "a"], [NAME |-> "b"] }

\* response bodies {success?, error?, rows?} with rows over the records R
Bodies(R) ==
  { s @@ e @@ r : s \in {EmptyDict} \cup {[success |-> b] : b \in BOOLEAN},
                  e \in {EmptyDict} \cup {[error |-> x] : x \in Errors},
                  r \in {EmptyDict} \cup {[rows |-> x] : x \in SeqsUpTo(R, MaxRows)} }

\* what a Transport call hands back: (ok, body)
Responses(R) == { <<ok, body>> : ok \in BOOLEAN, body \in Bodies(R) }

\* ------------------------------------------------------- session client
\* the sanity check reporting a failure by its return value instead of raising
_login_sanity_check_returns(result, responsedata) ==
  IF ~result THEN Return(FALSE)
  ELSE IF ~HasKey(responsedata, "success") THEN Return(FALSE)
  ELSE IF ~responsedata.success THEN Return(FALSE)
  ELSE Return(TRUE)

_login_sanity_check(result, responsedata) ==
  IF ~result THEN GravAuthError(<<"Invalid API data received">>)
  ELSE IF ~HasKey(responsedata, "success")
  THEN GravAuthError(<<"api response missing 'success' key">>)
  ELSE IF ~responsedata.success
  THEN IF HasKey(responsedata, "error") THEN GravAuthError(<<responsedata.error>>)
       ELSE KeyError("error")
  ELSE Return(TRUE)

\* login_session_check handing back the last row instead of the first
login_session_check_last(self, response) ==
  LET result == response[1]
      responsedata == response[2]
      check == _login_sanity_check(result, responsedata)
  IN [requests |-> <<Request("read", <<"login">>, EmptyDict)>>,
      outcome |->
        IF check.kind = "raise" THEN check
        ELSE IF ~check.value THEN Return(<<FALSE, EmptyDict>>)
        ELSE IF ~HasKey(responsedata, "rows") THEN KeyError("rows")
        ELSE IF Len(responsedata.rows) = 0 THEN Return(<<FALSE, EmptyDict>>)
        ELSE Return(<<TRUE, responsedata.rows[Len(responsedata.rows)]>>)]

login_session_check(self, response) ==
  LET result == response[1]
      responsedata == response[2]
      check == _login_sanity_check(result, responsedata)
  IN [requests |-> <<Request("read", <<"login">>, EmptyDict)>>,
      outcome |->
        IF check.kind = "raise" THEN check
        ELSE IF ~check.value THEN Return(<<FALSE, EmptyDict>>)
        ELSE IF ~HasKey(responsedata, "rows") THEN KeyError("rows")
        ELSE IF Len(responsedata.rows) = 0 THEN Return(<<FALSE, EmptyDict>>)
        ELSE Return(<<TRUE, responsedata.rows[1]>>)]

\* the two messages that send the user to the browser
MustChangeText == "Password must be changed. Please log in with a browser to https://"
HasExpiredText == "Password has expired. Please log in with a browser to https://"

MustChange(self) ==
  <<MustChangeText>> \o self.hostparts.netloc \o <<" to change your password">>

HasExpired(self) ==
  <<HasExpiredText>> \o self.hostparts.netloc \o <<" to change your password">>

\* login reading expired_pwd before FORCE_PWD_CHANGE
login_expired_first(self, username, password, response) ==
  LET payload == [USER |-> username, PASSWORD |-> password]
      result == response[1]
      responsedata == response[2]
      check == _login_sanity_check(result, responsedata)
      rows == responsedata.rows[1]
      force_pwd_change ==
        IF HasKey(rows, "FORCE_PWD_CHANGE") THEN rows.FORCE_PWD_CHANGE ELSE FALSE
  IN [requests |-> <<Request("create", <<"login">>, payload)>>,
      outcome |->
        IF check.kind = "raise" THEN check
        ELSE IF ~check.value THEN Return(FALSE)
        ELSE IF ~HasKey(responsedata, "rows")
        THEN GravAuthError(<<"No user data received">>)
        ELSE IF Len(responsedata.rows) = 0 THEN IndexError
        ELSE IF ~HasKey(rows, "expired_pwd") THEN KeyError("expired_pwd")
        ELSE IF rows.expired_pwd THEN GravAuthError(HasExpired(self))
        ELSE IF force_pwd_change THEN GravAuthError(MustChange(self))
        ELSE Return(TRUE)]

login(self, username, password, response) ==
  LET payload == [USER |-> username, PASSWORD |-> password]
      result == response[1]
      responsedata == response[2]
      check == _login_sanity_check(result, responsedata)
      rows == responsedata.rows[1]
      force_pwd_change ==
        IF HasKey(rows, "FORCE_PWD_CHANGE") THEN rows.FORCE_PWD_CHANGE ELSE FALSE
  IN [requests |-> <<Request("create", <<"login">>, payload)>>,
      outcome |->
        IF check.kind = "raise" THEN check
        ELSE IF ~check.value THEN Return(FALSE)
        ELSE IF ~HasKey(responsedata, "rows")
        THEN GravAuthError(<<"No user data received">>)
        ELSE IF Len(responsedata.rows) = 0 THEN IndexError
        ELSE IF force_pwd_change THEN GravAuthError(MustChange(self))
        ELSE IF ~HasKey(rows, "expired_pwd") THEN KeyError("expired_pwd")
        ELSE IF rows.expired_pwd THEN GravAuthError(HasExpired(self))
        ELSE Return(TRUE)]

logout(self, response) ==
  LET result == response[1]
      responsedata == response[2]
      check == _login_sanity_check(result, responsedata)
  IN [requests |-> <<Request("delete", <<"login">>, EmptyDict)>>,
      outcome |->
        IF check.kind = "raise" THEN check
        ELSE IF ~check.value THEN Return(FALSE)
        ELSE Return(TRUE)]

NotImplementedText == "Method not implemented yet!"

\* the READ branch of clients with the rows cut down to the first one
clients_read_single(self, client_id, fields, order, limit, response) ==
  LET params ==
        (IF Len(fields) > 0 THEN [fields |-> Join(",", fields)] ELSE EmptyDict)
        @@ (IF limit > 0 THEN [limit |-> limit] ELSE EmptyDict)
        @@ (IF Len(order) > 0 THEN [order |-> Join(",", order)] ELSE EmptyDict)
      pathuri == IF client_id > 0 THEN <<"clients", "/">> \o Str(client_id)
                 ELSE <<"clients">>
      success == response[1]
      responsedata == response[2]
  IN [requests |-> <<Request("read", pathuri, params)>>,
      outcome |->
        IF ~success
        THEN IF HasKey(responsedata, "error")
             THEN GravGeneralError(<<"Error received from API: ", responsedata.error>>)
             ELSE KeyError("error")
        ELSE IF ~HasKey(responsedata, "rows") THEN KeyError("rows")
        ELSE IF Len(responsedata.rows) = 0
        THEN GravGeneralError(<<"Client ID '">> \o Str(client_id) \o <<"' not found!">>)
        ELSE Return(<<TRUE, <<responsedata.rows[1]>> >>)]

\* the READ branch of clients
clients_read(self, client_id, fields, order, limit, response) ==
  LET params ==
        (IF Len(fields) > 0 THEN [fields |-> Join(",", fields)] ELSE EmptyDict)
        @@ (IF limit > 0 THEN [limit |-> limit] ELSE EmptyDict)
        @@ (IF Len(order) > 0 THEN [order |-> Join(",", order)] ELSE EmptyDict)
      pathuri == IF client_id > 0 THEN <<"clients", "/">> \o Str(client_id)
                 ELSE <<"clients">>
      success == response[1]
      responsedata == response[2]
  IN [requests |-> <<Request("read", pathuri, params)>>,
      outcome |->
        IF ~success
        THEN IF HasKey(responsedata, "error")
             THEN GravGeneralError(<<"Error received from API: ", responsedata.error>>)
             ELSE KeyError("error")
        ELSE IF ~HasKey(responsedata, "rows") THEN KeyError("rows")
        ELSE IF Len(responsedata.rows) = 0
        THEN GravGeneralError(<<"Client ID '">> \o Str(client_id) \o <<"' not found!">>)
        ELSE Return(<<TRUE, responsedata.rows>>)]

\* clients with DELETE left out of the not-implemented test
clients_delete_reads(self, method, client_id, fields, order, limit, data, response) ==
  IF method \notin {CREATE, READ, UPDATE, DELETE}
  THEN [requests |-> <<>>,
        outcome |-> GravGeneralError(<<"Invalid method specified: ">> \o Str(method))]
  ELSE IF method \in {CREATE, UPDATE}
  THEN [requests |-> <<>>, outcome |-> GravGeneralError(<<NotImplementedText>>)]
  ELSE clients_read(self, client_id, fields, order, limit, response)

clients(self, method, client_id, fields, order, limit, data, response) ==
  IF method \notin {CREATE, READ, UPDATE, DELETE}
  THEN [requests |-> <<>>,
        outcome |-> GravGeneralError(<<"Invalid method specified: ">> \o Str(method))]
  ELSE IF method \in {CREATE, UPDATE, DELETE}
  THEN [requests |-> <<>>, outcome |-> GravGeneralError(<<NotImplementedText>>)]
  ELSE clients_read(self, client_id, fields, order, limit, response)

\* ---------------------------------------------------------------- inputs
Usernames == {"restuser"}
Passwords == {"gravitas"}
Methods == (READ - 1)..(DELETE + 1)
ClientIds == 0..MaxClientId
FieldLists == {<<>>, <<"CLIENT_ID", "NAME">>}
OrderLists == {<<>>, <<"NAME">>}
Limits == {0, DefaultLimit}
DataDicts == {EmptyDict, [NAME |-> "c"]}

\* the call record of a method that talked (or not) to the Transport
Called(op, args, response, r) ==
  [op |-> op, args |-> args, requests |-> r.requests,
   responses |-> IF r.requests = <<>> THEN <<>> ELSE <<response>>,
   outcome |-> r.outcome]

Ready == sdk.constructed /\ call.op = "none"

LoginSessionCheck ==
  /\ Ready
  /\ \E response \in Responses(UserRecords) :
       call' = Called("login_session_check", EmptyDict, response,
                      login_session_check(sdk, response))
  /\ UNCHANGED <<sdk, transports>>

Login ==
  /\ Ready
  /\ \E username \in Usernames, password \in Passwords,
        response \in Responses(UserRecords) :
       call' = Called("login", [username |-> username, password |-> password],
                      response, login(sdk, username, password, response))
  /\ UNCHANGED <<sdk, transports>>

Logout ==
  /\ Ready
  /\ \E response \in Responses(UserRecords) :
       call' = Called("logout", EmptyDict, response, logout(sdk, response))
  /\ UNCHANGED <<sdk, transports>>

Clients ==
  /\ Ready
  /\ \E method \in Methods, client_id \in ClientIds, fields \in FieldLists,
        order \in OrderLists, limit \in Limits, data \in DataDicts,
        response \in Responses(ClientRecords) :
       call' = Called("clients",
                      [method |-> method, client_id |-> client_id, fields |-> fields,
                       order |-> order, limit |-> limit, data |-> data],
                      response,
                      clients(sdk, method, client_id, fields, order, limit, data, response))
  /\ UNCHANGED <<sdk, transports>>

\* the caller takes the outcome of the call and goes on
CallerContinue ==
  /\ call.op # "none"
  /\ call' = NoCall
  /\ UNCHANGED <<sdk, transports>>

Next ==
  \/ Construct
  \/ LoginSessionCheck
  \/ Login
  \/ Logout
  \/ Clients
  \/ CallerContinue

Spec == Init /\ [][Next]_vars

\* ================================================================ claims
\* the last call's pieces
Response == call.responses[1]
Ok == Response[1]
Body == Response[2]
Outcome == call.outcome

IsCall(op) == call.op = op /\ call.responses # <<>>

\* the response fails the envelope sanity check
FailsSanity == ~Ok \/ ~HasKey(Body, "success") \/ ~Body.success

\* the transport reported ok and the envelope says success = true
Successful == Ok /\ HasKey(Body, "success") /\ Body.success

Raised(cls) == Outcome.kind = "raise" /\ Outcome.exc = cls

Returned(v) == Outcome.kind = "return" /\ Outcome.value = v

\* the raised message holds the token
Says(text) == \E i \in 1..Len(Outcome.message) : Outcome.message[i] = text

\* the raised message holds the decimal digits of n, in a row
Mentions(n) ==
  LET d == Str(n)
      m == Outcome.message
  IN \E i \in 0..(Len(m) - Len(d)) : \A k \in 1..Len(d) : m[i + k] = d[k]

OnLoginPath == IsCall("login") \/ IsCall("logout") \/ IsCall("login_session_check")

\* C1: whenever the response has ok false, or no success key, or success
\* false, login, logout and login_session_check raise GravAuthError (with the
\* body's error as the message when success is false) and return nothing.
C1_BadEnvelopeRaisesAuthError ==
  (OnLoginPath /\ FailsSanity) =>
     /\ Raised("GravAuthError")
     /\ (Ok /\ HasKey(Body, "success") /\ ~Body.success /\ HasKey(Body, "error")) => Says(Body.error)

ReadCall == IsCall("clients") /\ call.args.method = READ

\* C2: clients(READ) raises GravGeneralError, and never returns (True, rows),
\* whenever the envelope has no success key or has success false, whatever
\* the transport's ok flag and whether or not rows is there.
C2_ClientsBadEnvelopeRaisesGeneralError ==
  (ReadCall /\ (~HasKey(Body, "success") \/ ~Body.success)) =>
     Raised("GravGeneralError")

FirstRow == Body.rows[1]
HasFirstRow == HasKey(Body, "rows") /\ Len(Body.rows) > 0
ForceSet == HasKey(FirstRow, "FORCE_PWD_CHANGE") /\ FirstRow.FORCE_PWD_CHANGE
ExpiredSet == HasKey(FirstRow, "expired_pwd") /\ FirstRow.expired_pwd

\* C3: login against a response the transport reports ok, with success = true
\* and a first user record: FORCE_PWD_CHANGE true raises the must-change
\* GravAuthError whatever expired_pwd is (absent too); else expired_pwd true
\* raises the has-expired GravAuthError; True is returned only with neither set.
C3_LoginFlagOrder ==
  (IsCall("login") /\ Successful /\ HasFirstRow) =>
     /\ ForceSet => (Raised("GravAuthError") /\ Says(MustChangeText))
     /\ (~ForceSet /\ ExpiredSet) => (Raised("GravAuthError") /\ Says(HasExpiredText))
     /\ Returned(TRUE) => (~ForceSet /\ ~ExpiredSet)

C3_Witness ==
  /\ IsCall("login") /\ Successful /\ HasFirstRow
  /\ ForceSet /\ ~HasKey(FirstRow, "expired_pwd")
  /\ Raised("GravAuthError") /\ Says(MustChangeText)

\* C4 as stated: login_session_check returns (False, {}) rather than raising
\* when the response fails the sanity check, and (True, first_row) only
\* otherwise.
C4_SessionCheckReturnsFalseOnBadEnvelope ==
  IsCall("login_session_check") =>
     /\ FailsSanity => Returned(<<FALSE, EmptyDict>>)
     /\ (Outcome.kind = "return" /\ Outcome.value[1]) => ~FailsSanity

\* C4 amended: login_session_check raises, and returns nothing, when the
\* response fails the sanity check; it returns (False, {}) only when the check
\* passes and rows is empty, and (True, first_row) only when the check passes
\* and rows is not empty.
C4_SessionCheckRaisesOnBadEnvelope ==
  IsCall("login_session_check") =>
     /\ FailsSanity => Outcome.kind = "raise"
     /\ Outcome.kind = "return" =>
          /\ ~FailsSanity /\ HasKey(Body, "rows")
          /\ Outcome.value[1] = (Len(Body.rows) > 0)
          /\ Outcome.value[2] = IF Len(Body.rows) > 0 THEN FirstRow ELSE EmptyDict

C4_Witness ==
  /\ IsCall("login_session_check")
  /\ Ok /\ HasKey(Body, "success") /\ ~Body.success /\ HasKey(Body, "rows")
  /\ Raised("GravAuthError")

\* C5: login_session_check against a response that passes the sanity check
\* (transport ok, success = true): empty rows give (False, {}), non-empty rows
\* give (True, rows[0]), the first record as received.
C5_SessionCheckFirstRow ==
  (IsCall("login_session_check") /\ Successful /\ HasKey(Body, "rows")) =>
     IF Len(Body.rows) = 0 THEN Returned(<<FALSE, EmptyDict>>)
     ELSE Returned(<<TRUE, FirstRow>>)

C5_Witness ==
  /\ IsCall("login_session_check") /\ Successful /\ HasKey(Body, "rows")
  /\ Len(Body.rows) >= 2 /\ Body.rows[2] # FirstRow
  /\ Returned(<<TRUE, FirstRow>>)

\* C6: clients(READ, client_id = c) with c > 0 against a response the transport
\* reports ok with success = true: empty rows raise a GravGeneralError whose
\* message holds c; non-empty rows return (True, rows), rows as received.
C6_ClientLookup ==
  (ReadCall /\ call.args.client_id > 0 /\ Successful /\ HasKey(Body, "rows")) =>
     IF Len(Body.rows) = 0
     THEN Raised("GravGeneralError") /\ Mentions(call.args.client_id)
     ELSE Returned(<<TRUE, Body.rows>>)

C6_Witness ==
  /\ ReadCall /\ call.args.client_id >= 10 /\ Successful /\ HasKey(Body, "rows")
  /\ Len(Body.rows) = 0
  /\ Raised("GravGeneralError") /\ Mentions(call.args.client_id)

\* C7: clients(READ) with client_id = 0 against a successful envelope returns
\* (True, rows) for every rows, the empty one too; the not-found
\* GravGeneralError is only for a lookup with client_id > 0.
C7_ListingReturnsEveryRows ==
  (ReadCall /\ call.args.client_id = 0 /\ Successful /\ HasKey(Body, "rows")) =>
     Returned(<<TRUE, Body.rows>>)

\* C8: clients with CREATE, UPDATE or DELETE raises the not-implemented
\* GravGeneralError whatever the other arguments, with no Transport request;
\* a method outside the four verbs raises GravGeneralError with no request.
C8_OnlyReadIsImplemented ==
  (call.op = "clients" /\ call.args.method # READ) =>
     /\ Raised("GravGeneralError")
     /\ call.requests = <<>>
     /\ call.args.method \in {CREATE, UPDATE, DELETE} => Says(NotImplementedText)

C8_Witness ==
  /\ call.op = "clients" /\ call.args.method = DELETE
  /\ call.args.client_id > 0 /\ call.args.fields # <<>> /\ call.args.data # EmptyDict
  /\ Raised("GravGeneralError") /\ Says(NotImplementedText)
  /\ call.requests = <<>>

\* C9: login against a response with success = true but no user data (rows
\* absent, or rows empty) fails with GravAuthError: it neither returns True
\* nor raises another kind of error.
C9_LoginWithoutUserData ==
  (IsCall("login") /\ Successful /\ ~HasFirstRow) => Raised("GravAuthError")

ConstructCall == call.op = "__init__"
GivenScheme == SplitScheme(call.args.hoststring).scheme
Accepted == ~urlparse(call.args.hoststring).error

\* the construction made no Transport and no request
NothingCreated == ~sdk.constructed /\ transports = <<>> /\ call.requests = <<>>

Canonical(h) ==
  /\ h = Lower(h)
  /\ h[Len(h)] \notin {"?", "#"}
  /\ Len(h) >= Len(https) + 3
  /\ SubSeq(h, Len(https) + 1, Len(https) + 3) = <<":", "/", "/">>

====
